---- MODULE Spec2Model ----
(***************************************************************************)
(* kmla: log ingestion and analysis pipeline.                              *)
(*                                                                         *)
(* lib/log-parser (parseLogData, deduplicateEntries), the orchestrator     *)
(* app/page.tsx (Home: filteredData, macroStats, selection reset effect),  *)
(* and the selection filters of MacroAnalysis and TimeAnalysis.            *)
(*                                                                         *)
(* Timestamps have second resolution; a timestamp is modelled by its       *)
(* number of seconds since the start of the log, and Date.getTime() by     *)
(* 1000 times that number.  A timestamp text that matches the parser's     *)
(* digit pattern but is not a date (month 13, hour 99) is BadTs; its       *)
(* getTime() is NaN.                                                       *)
(***************************************************************************)
EXTENDS Integers, Sequences, FiniteSets, TLC

VARIABLES
    pc,                 \* position of the harness / of the React commit cycle
    \* ---- lib/log-parser, called as pure functions
    content,            \* parseLogData argument: sequence of lines
    parsed,             \* parseLogData result
    entries,            \* deduplicateEntries argument
    windowMs,           \* deduplicateEntries argument
    deduplicated,       \* deduplicateEntries(entries, windowMs)
    rededuplicated,     \* deduplicateEntries(deduplicated, windowMs)
    \* ---- Home (app/page.tsx)
    logData,            \* useState<LogEntry[]>
    analysisOptions,    \* useState<AnalysisOptions>
    sidebarOpen,        \* useState(true)
    filteredData,       \* useMemo [logData, analysisOptions]
    macroStats,         \* useMemo [filteredData]
    selectedMacroNames, \* useState<Set<string>>
    statsChanged,       \* macroStats got a new identity in the last render
    statsSame,          \* history: an options edit left the statistics as they were
    \* ---- rendered children
    macrosForAnalysis,  \* MacroAnalysis useMemo (chart view)
    dataForProcessing,  \* TimeAnalysis timeData selection filter (time view)
    activeTab,          \* Tabs value: which TabsContent is mounted
    gridSelected,       \* names of the rows checked in the AG Grid table
    \* ---- aggregators of the views, called as pure functions
    gridRowData,        \* SharedMacroStatisticsTable useMemo (rows of the table)
    chartDataInput,     \* MacroAnalysis useMemo (ranked statistics of the chart)
    generalDisplayStats, \* Home useMemo (the totals of the General tab)
    tzOffset,           \* the host's offset from UTC, in hours (east positive)
    viewMode,           \* TimeAnalysis useState: "hourly", "daily" or "weekly"
    timeData,           \* TimeAnalysis useMemo: hourly, daily, weekly buckets
    peakTime,           \* TimeAnalysis useMemo: peak of timeData[viewMode]
    hotKeyData,         \* KeyboardAnalysis useMemo: keyStats, modifierStats, combinationStats
    keyIntensity,       \* getKeyIntensity(key) of the keys drawn on the keyboard
    \* ---- AnalysisSidebar
    truncateLines,      \* useState: the switch "Truncate large files"
    maxLines,           \* useState: the input "Max lines"
    error,              \* useState: the message of the sidebar's alert box
    readers,            \* the FileReaders that have not fired onload / onerror
    alerts,             \* number of window.alert calls so far
    consoleLast,        \* the last message handleFile wrote to the console
    inputFile           \* the file chosen last, with the settings of its read

vars == << pc, content, parsed, entries, windowMs, deduplicated, rededuplicated,
           logData, analysisOptions, sidebarOpen, filteredData, macroStats,
           selectedMacroNames, statsChanged, statsSame, macrosForAnalysis,
           dataForProcessing, activeTab, gridSelected, gridRowData, chartDataInput, generalDisplayStats,
           tzOffset, viewMode, timeData, peakTime, hotKeyData, keyIntensity,
           truncateLines, maxLines, error, readers, alerts, consoleLast,
           inputFile >>

parseVars == << content, parsed >>
dedupVars == << entries, windowMs, deduplicated, rededuplicated >>
homeVars  == << logData, analysisOptions, sidebarOpen, filteredData, macroStats,
                selectedMacroNames, statsChanged, statsSame, macrosForAnalysis,
                dataForProcessing, activeTab, gridSelected >>
statVars  == << gridRowData, chartDataInput, generalDisplayStats >>
timeVars  == << tzOffset, viewMode, timeData, peakTime >>
keyVars   == << hotKeyData, keyIntensity >>
sidebarVars == << truncateLines, maxLines, error, readers, alerts, consoleLast,
                 inputFile >>
viewVars  == << statVars, timeVars, keyVars, sidebarVars >>

----------------------------------------------------------------------------
(* Bounds *)

MaxLen == 3         \* longest entry sequence
MaxLines == 3       \* longest log text, in lines
MaxSec == 2         \* timestamps range over seconds 0..MaxSec
NumNames == 2       \* number of distinct macro names
MaxWinSteps == 4    \* windows range over 0, 500, .., 500 * MaxWinSteps ms
MaxDays == 1        \* the logs of the statistics span up to MaxDays days

NameOf == << "A", "B", "C", "D", "E" >>
Names == { NameOf[i] : i \in 1..NumNames }
Windows == { 500 * k : k \in 0..MaxWinSteps }

----------------------------------------------------------------------------
(* Dates *)

BadTs == -1                 \* digits that are not a date: "2024-13-45 99:99:99"
NaN == -999999              \* the number Date.getTime() gives for an Invalid Date

Null == -1000000            \* a dateRange bound that is not set
DayMs == 86400000           \* 1000 * 60 * 60 * 24

ValidTimestamps == 0..MaxSec
Timestamps == ValidTimestamps \cup {BadTs}

\* new Date(timestamp).getTime()
getTime(ts) == IF ts = BadTs THEN NaN ELSE 1000 * ts

\* a - b on numbers
Minus(a, b) == IF a = NaN \/ b = NaN THEN NaN ELSE a - b

\* a >= b, a < b on numbers: every comparison with NaN is false
GreaterEq(a, b) == a # NaN /\ b # NaN /\ a >= b
LessThan(a, b) == a # NaN /\ b # NaN /\ a < b

----------------------------------------------------------------------------
(* LogEntry; the raw line is carried for diagnostics only and is left out. *)

Triggers == { "Editor", "HotKey" }

LogEntry(ts, name, trig) == [ timestamp |-> ts, macroName |-> name, trigger |-> trig ]

ValidEntries == { LogEntry(ts, n, "Editor") : ts \in ValidTimestamps, n \in Names }

SeqsUpTo(S, n) == UNION { [1..k -> S] : k \in 0..n }

IsTimeAscending(es) ==
    \A i \in 1..Len(es) : \A j \in 1..Len(es) :
        i < j => es[i].timestamp # BadTs /\ es[j].timestamp # BadTs
                 /\ es[i].timestamp <= es[j].timestamp

AscendingSeqs == { es \in SeqsUpTo(ValidEntries, MaxLen) : IsTimeAscending(es) }

----------------------------------------------------------------------------
(* deduplicateEntries *)

KeepAgainstPrevInput(es, w, i, acc) ==
    LET current == es[i]
        previous == es[i - 1]
        timeDiff == Minus(getTime(current.timestamp), getTime(previous.timestamp))
    IN  current.macroName # previous.macroName \/ GreaterEq(timeDiff, w)

\* the test of the loop body: is entries[i] pushed, given what was kept so far
DedupKeeps(es, w, i, acc) ==
    LET current == es[i]
        previous == acc[Len(acc)]
        timeDiff == Minus(getTime(current.timestamp), getTime(previous.timestamp))
    IN  current.macroName # previous.macroName \/ GreaterEq(timeDiff, w)

\* the loop that puts a duplicate in the place of the entry kept last
RECURSIVE DedupLoopKeepLatest(_, _, _, _)
DedupLoopKeepLatest(es, w, i, acc) ==
    IF i > Len(es) THEN acc
    ELSE DedupLoopKeepLatest(es, w, i + 1,
                             IF DedupKeeps(es, w, i, acc) THEN Append(acc, es[i])
                             ELSE [ acc EXCEPT ![Len(acc)] = es[i] ])

RECURSIVE DedupLoop(_, _, _, _)
DedupLoop(es, w, i, acc) ==
    IF i > Len(es) THEN acc
    ELSE DedupLoop(es, w, i + 1,
                   IF DedupKeeps(es, w, i, acc) THEN Append(acc, es[i]) ELSE acc)

\* the loop started at index 0 instead of 1: entries[0] meets itself
deduplicateEntriesFromZero(es, w) ==
    IF Len(es) = 0 THEN es ELSE DedupLoop(es, w, 1, << es[1] >>)

deduplicateEntries(es, w) ==
    IF Len(es) = 0 THEN es ELSE DedupLoop(es, w, 2, << es[1] >>)

----------------------------------------------------------------------------
(* Log text.  A line is a sequence of tokens; a token stands for the piece *)
(* of text the parser's patterns tell apart:                               *)
(*   ts    text of the shape \d{4}-\d{2}-\d{2} \d{2}:\d{2}:\d{2}           *)
(*   exec  the literal  Execute macro                                      *)
(*   q     a straight double quote;  lq, rq  the quotes U+201C, U+201D      *)
(*   from  the literal  from trigger                                       *)
(*   text  any other text without quotes (" " is white space only)         *)

Tok(k, ts, s) == [ k |-> k, ts |-> ts, s |-> s ]
TsTok(ts) == Tok("ts", ts, "")
ExecTok == Tok("exec", 0, "")
QTok == Tok("q", 0, "")
LqTok == Tok("lq", 0, "")
RqTok == Tok("rq", 0, "")
FromTok == Tok("from", 0, "")
TextTok(s) == Tok("text", 0, s)

\* preprocessContent: both smart quotes become the straight quote
preprocessContent(line) ==
    [ i \in 1..Len(line) |->
        IF line[i].k \in {"lq", "rq"} THEN QTok ELSE line[i] ]

\* String.trim() on the texts of the model
Trim(s) == IF s = " " THEN "" ELSE s

\* the text of a run of tokens; the lines of the model carry at most one
\* text token in a macro name and in a trigger
TextOf(toks) == IF Len(toks) = 0 THEN "" ELSE toks[1].s

\* line.trim() is empty
IsBlank(line) == \A i \in 1..Len(line) : line[i].k = "text" /\ Trim(line[i].s) = ""

\* line.match(/^(\d{4}-\d{2}-\d{2} \d{2}:\d{2}:\d{2})/)
HasTimestamp(line) == Len(line) >= 1 /\ line[1].k = "ts"

\* positions where /Execute macro "([^"]*)"/ matches: the literal, a quote
\* right after it, and a closing quote somewhere behind
MacroMatchAt(line) ==
    { i \in 1..Len(line) :
        /\ line[i].k = "exec"
        /\ i + 1 <= Len(line) /\ line[i + 1].k = "q"
        /\ \E j \in (i + 2)..Len(line) : line[j].k = "q" }

Min(S) == CHOOSE x \in S : \A y \in S : x <= y

\* macroMatch[1]: the text between the quotes of the leftmost match
MacroNameOf(line) ==
    LET i == Min(MacroMatchAt(line))
        j == Min({ k \in (i + 2)..Len(line) : line[k].k = "q" })
    IN  TextOf(SubSeq(line, i + 2, j - 1))

\* positions where /from trigger (.+)$/ matches: something follows the literal
TriggerMatchAt(line) ==
    { i \in 1..Len(line) : line[i].k = "from" /\ i < Len(line) }

\* triggerMatch[1]: everything after the leftmost match
TriggerOf(line) ==
    LET i == Min(TriggerMatchAt(line))
    IN  TextOf(SubSeq(line, i + 1, Len(line)))

\* does the loop body push an entry for this line
LineMatches(line) ==
    /\ \E i \in 1..Len(line) : line[i].k = "exec"
    /\ HasTimestamp(line)
    /\ MacroMatchAt(line) # {}
    /\ TriggerMatchAt(line) # {}

EntryOfLine(line) ==
    LogEntry(line[1].ts, Trim(MacroNameOf(line)), Trim(TriggerOf(line)))

\* the for loop of parseLogData from line i on, with the first unparsable
\* line ending the loop (break for continue)
RECURSIVE ParseLinesAbort(_, _)
ParseLinesAbort(lines, i) ==
    IF i > Len(lines) THEN << >>
    ELSE IF LineMatches(lines[i])
         THEN << EntryOfLine(lines[i]) >> \o ParseLinesAbort(lines, i + 1)
         ELSE << >>

\* the for loop of parseLogData from line i on
RECURSIVE ParseLines(_, _)
ParseLines(lines, i) ==
    IF i > Len(lines) THEN << >>
    ELSE (IF LineMatches(lines[i]) THEN << EntryOfLine(lines[i]) >> ELSE << >>)
         \o ParseLines(lines, i + 1)

\* the comparator of the sort: a NaN result counts as 0 (SortCompare)
CompareTime(a, b) ==
    LET v == Minus(getTime(a.timestamp), getTime(b.timestamp))
    IN  IF v = NaN THEN 0 ELSE v

\* the comparator orders the entries of es consistently: "compares equal"
\* is transitive (it is not once an Invalid Date meets two different times)
ConsistentComparator(es) ==
    \A i, j, k \in 1..Len(es) :
        CompareTime(es[i], es[j]) = 0 /\ CompareTime(es[j], es[k]) = 0
            => CompareTime(es[i], es[k]) = 0

IndexOrders(n) == { f \in [1..n -> 1..n] : \A i, j \in 1..n : i # j => f[i] # f[j] }

\* Array.prototype.sort is stable: p lists the indices of es in ascending
\* order of the comparator, equal elements in their original order
IsStableOrder(es, p) ==
    \A i, j \in 1..Len(es) :
        i < j => \/ CompareTime(es[p[i]], es[p[j]]) < 0
                 \/ CompareTime(es[p[i]], es[p[j]]) = 0 /\ p[i] < p[j]

\* the results entries.sort(comparator) can give: the stable order when the
\* comparator is consistent, an implementation-defined order otherwise
SortByTime(es) ==
    { [ i \in 1..Len(es) |-> es[p[i]] ] :
        p \in { q \in IndexOrders(Len(es)) :
                  ConsistentComparator(es) => IsStableOrder(es, q) } }

\* split(/\r?\n/).filter(line => line.trim()) after preprocessContent
NonEmptyLines(text) ==
    SelectSeq([ i \in 1..Len(text) |-> preprocessContent(text[i]) ],
              LAMBDA line : ~IsBlank(line))

\* the set of results parseLogData(content) can return
parseLogData(text) == SortByTime(ParseLines(NonEmptyLines(text), 1))

----------------------------------------------------------------------------
(* Home: filteredData *)

GreaterThan(a, b) == a # NaN /\ b # NaN /\ a > b

\* the callback of filtered.filter in the date filtering
InDateRange(entry, start, end) ==
    LET entryDate == getTime(entry.timestamp)
    IN  /\ ~(start # Null /\ LessThan(entryDate, start))
        /\ ~(end # Null /\ GreaterThan(entryDate, end))

\* the callback without the comparison of the names
InlineKeepsByTimeOnly(arr, index, window) ==
    \/ index = 1
    \/ LET entry == arr[index]
           prevEntry == arr[index - 1]
           timeDiff == Minus(getTime(entry.timestamp), getTime(prevEntry.timestamp))
       IN  ~LessThan(timeDiff, window)

\* the callback of sortedForDeduplication.filter
InlineKeeps(arr, index, window) ==
    \/ index = 1
    \/ LET entry == arr[index]
           prevEntry == arr[index - 1]
           timeDiff == Minus(getTime(entry.timestamp), getTime(prevEntry.timestamp))
       IN  ~(entry.macroName = prevEntry.macroName /\ LessThan(timeDiff, window))

RECURSIVE InlineDedup(_, _, _)
InlineDedup(arr, index, window) ==
    IF index > Len(arr) THEN << >>
    ELSE (IF InlineKeeps(arr, index, window) THEN << arr[index] >> ELSE << >>)
         \o InlineDedup(arr, index + 1, window)

\* es with e put behind the last entry that is not later than e
RECURSIVE InsertByTime(_, _)
InsertByTime(es, e) ==
    IF Len(es) = 0 THEN << e >>
    ELSE IF CompareTime(e, es[Len(es)]) < 0
         THEN Append(InsertByTime(SubSeq(es, 1, Len(es) - 1), e), es[Len(es)])
         ELSE Append(es, e)

\* [...filtered].sort(by time), stable; the logs Home holds carry dates
\* only, for which the sort has this one result
RECURSIVE SortedForDeduplication(_)
SortedForDeduplication(es) ==
    IF Len(es) = 0 THEN << >>
    ELSE InsertByTime(SortedForDeduplication(SubSeq(es, 1, Len(es) - 1)), es[Len(es)])

\* the deduplication done before the date filtering
FilteredDataDedupFirst(log, opts) ==
    LET deduped == IF opts.deduplicate
                   THEN InlineDedup(SortedForDeduplication(log), 1,
                                    opts.deduplicationWindow)
                   ELSE log
    IN  IF opts.start # Null \/ opts.end # Null
        THEN SelectSeq(deduped, LAMBDA e : InDateRange(e, opts.start, opts.end))
        ELSE deduped

\* the filteredData memo
FilteredData(log, opts) ==
    LET dated == IF opts.start # Null \/ opts.end # Null
                 THEN SelectSeq(log, LAMBDA e : InDateRange(e, opts.start, opts.end))
                 ELSE log
    IN  IF opts.deduplicate
        THEN InlineDedup(SortedForDeduplication(dated), 1, opts.deduplicationWindow)
        ELSE dated

----------------------------------------------------------------------------
(* Home: macroStats *)

IndexOfName(acc, name) ==
    IF \E k \in 1..Len(acc) : acc[k].name = name
    THEN CHOOSE k \in 1..Len(acc) : acc[k].name = name
    ELSE 0

\* the body of filteredData.forEach: the Map keeps insertion order
StatsStep(acc, entry) ==
    IF entry.macroName = "" THEN acc
    ELSE LET k == IndexOfName(acc, entry.macroName)
             t == getTime(entry.timestamp)
             existing == IF k # 0 THEN acc[k]
                         ELSE [ name |-> entry.macroName, count |-> 0,
                                firstSeen |-> t, lastSeen |-> t, triggers |-> << >> ]
             updated == [ existing EXCEPT
                            !.count = @ + 1,
                            !.lastSeen = t,
                            !.firstSeen = IF LessThan(t, @) THEN t ELSE @,
                            !.triggers = IF \E j \in 1..Len(@) : @[j] = entry.trigger
                                         THEN @ ELSE Append(@, entry.trigger) ]
         IN  IF k # 0 THEN [ acc EXCEPT ![k] = updated ] ELSE Append(acc, updated)

RECURSIVE StatsFold(_, _, _)
StatsFold(data, i, acc) ==
    IF i > Len(data) THEN acc ELSE StatsFold(data, i + 1, StatsStep(acc, data[i]))

\* Math.max(1, Math.ceil((lastSeen - firstSeen) / DayMs))
DaysDiff(firstSeen, lastSeen) ==
    LET d == Minus(lastSeen, firstSeen)
    IN  IF d = NaN THEN NaN
        ELSE LET c == -((-d) \div DayMs) IN IF c > 1 THEN c ELSE 1

\* (count / daysDiff).toFixed(1), in tenths
AvgPerDay(count, daysDiff) ==
    IF daysDiff = NaN THEN NaN
    ELSE (20 * count + daysDiff) \div (2 * daysDiff)

\* the macroStats memo
MacroStats(data) ==
    LET stats == StatsFold(data, 1, << >>)
    IN  [ k \in 1..Len(stats) |->
            LET stat == stats[k]
                daysDiff == DaysDiff(stat.firstSeen, stat.lastSeen)
            IN  [ name |-> stat.name, count |-> stat.count,
                  avgPerDay |-> AvgPerDay(stat.count, daysDiff),
                  firstSeen |-> stat.firstSeen, lastSeen |-> stat.lastSeen,
                  triggers |-> stat.triggers, daysDiff |-> daysDiff ] ]

StatNames(stats) == { stats[k].name : k \in 1..Len(stats) }

\* the selection the reset effect sets
AllMacroNames(stats) == IF Len(stats) > 0 THEN StatNames(stats) ELSE {}

----------------------------------------------------------------------------
(* Selection filters *)

\* membership compared before the size test is made
MacrosForAnalysisByMembership(allMacroStats, selected) ==
    IF Len(allMacroStats) = 0 THEN << >>
    ELSE IF Cardinality(selected) = 0 THEN << >>
    ELSE SelectSeq(allMacroStats, LAMBDA macro : macro.name \in selected)

\* MacroAnalysis.macrosForAnalysis: filterStats
MacrosForAnalysis(allMacroStats, selected) ==
    IF Len(allMacroStats) = 0 THEN << >>
    ELSE IF Cardinality(selected) = 0 /\ Len(allMacroStats) > 0 THEN << >>
    ELSE IF Cardinality(selected) = Cardinality(StatNames(allMacroStats))
              \/ Len(allMacroStats) = 0
         THEN allMacroStats
         ELSE SelectSeq(allMacroStats, LAMBDA macro : macro.name \in selected)

\* the selection test dropped: every entry goes to the time view
DataForProcessingUnfiltered(data, selected) == data

\* TimeAnalysis.timeData, dataForProcessing: filterEntries
DataForProcessing(data, selected) ==
    IF Cardinality(selected) > 0
    THEN SelectSeq(data, LAMBDA entry : entry.macroName \in selected)
    ELSE << >>

\* the ranking with the last of the macros of the highest count put first
RECURSIVE SortByCountDescLastFirst(_)
SortByCountDescLastFirst(stats) ==
    IF Len(stats) = 0 THEN << >>
    ELSE LET k == CHOOSE i \in 1..Len(stats) :
                    /\ \A j \in 1..Len(stats) : stats[j].count <= stats[i].count
                    /\ \A j \in (i + 1)..Len(stats) : stats[j].count < stats[i].count
         IN  << stats[k] >>
             \o SortByCountDescLastFirst([ j \in 1..(Len(stats) - 1) |->
                                             IF j < k THEN stats[j] ELSE stats[j + 1] ])

\* stats.sort((a, b) => b.count - a.count): stable, by count descending
RECURSIVE SortByCountDesc(_)
SortByCountDesc(stats) ==
    IF Len(stats) = 0 THEN << >>
    ELSE LET k == CHOOSE i \in 1..Len(stats) :
                    /\ \A j \in 1..Len(stats) : stats[j].count <= stats[i].count
                    /\ \A j \in 1..(i - 1) : stats[j].count < stats[i].count
         IN  << stats[k] >>
             \o SortByCountDesc([ j \in 1..(Len(stats) - 1) |->
                                    IF j < k THEN stats[j] ELSE stats[j + 1] ])

----------------------------------------------------------------------------
(* TimeAnalysis.  Second 0 of the timestamps is 00:00:00 of a Sunday on the  *)
(* wall clock the log was written by; new Date(timestamp) reads the text as *)
(* local time of the host, whose offset from UTC is tz hours.               *)

TzOffsets == { -1, 0, 1 }

\* date.getHours(), date.getDay(): local time, the wall clock of the text
getHours(ts) == (ts \div 3600) % 24
getDay(ts) == (ts \div 86400) % 7

\* date.toISOString().split("T")[0]: the date in UTC, as a number of days
DayKey(ts, tz) == (ts - tz * 3600) \div 86400

\* new Date(date).toLocaleDateString(..): the date-only text is read as
\* midnight UTC and shown as the local date of that instant
DayName(date, tz) == (date * 86400 + tz * 3600) \div 86400

NoTimeData == [ hourly |-> << >>, daily |-> << >>, weekly |-> << >> ]

\* dailyStats.set(dayKey, (dailyStats.get(dayKey) || 0) + 1): the Map keeps
\* the keys in the order of their first insertion
DailySet(dailyStats, dayKey) ==
    IF \E k \in 1..Len(dailyStats) : dailyStats[k].date = dayKey
    THEN [ k \in 1..Len(dailyStats) |->
             IF dailyStats[k].date = dayKey
             THEN [ dailyStats[k] EXCEPT !.count = @ + 1 ] ELSE dailyStats[k] ]
    ELSE Append(dailyStats, [ date |-> dayKey, count |-> 1 ])

\* the body of dataForProcessing.forEach
TimeStep(acc, entry, tz) ==
    [ hourlyStats |-> [ acc.hourlyStats EXCEPT ![getHours(entry.timestamp)] = @ + 1 ],
      dailyStats |-> DailySet(acc.dailyStats, DayKey(entry.timestamp, tz)),
      weeklyStats |-> [ acc.weeklyStats EXCEPT ![getDay(entry.timestamp)] = @ + 1 ] ]

RECURSIVE TimeFold(_, _, _, _)
TimeFold(data, i, acc, tz) ==
    IF i > Len(data) THEN acc
    ELSE TimeFold(data, i + 1, TimeStep(acc, data[i], tz), tz)

\* daily.sort((a, b) => a.date.localeCompare(b.date)): the dates differ
RECURSIVE SortByDate(_)
SortByDate(daily) ==
    IF Len(daily) = 0 THEN << >>
    ELSE LET k == CHOOSE i \in 1..Len(daily) :
                    \A j \in 1..Len(daily) : daily[i].date <= daily[j].date
         IN  << daily[k] >>
             \o SortByDate([ j \in 1..(Len(daily) - 1) |->
                               IF j < k THEN daily[j] ELSE daily[j + 1] ])

\* the buckets with the early return on no data left out
TimeDataSeeded(data, selected, tz) ==
    LET stats == TimeFold(DataForProcessing(data, selected), 1,
                          [ hourlyStats |-> [ h \in 0..23 |-> 0 ],
                            dailyStats |-> << >>,
                            weeklyStats |-> [ d \in 0..6 |-> 0 ] ], tz)
    IN  [ hourly |-> [ i \in 1..24 |->
                         [ hourNum |-> i - 1, count |-> stats.hourlyStats[i - 1] ] ],
          daily |-> SortByDate([ k \in 1..Len(stats.dailyStats) |->
                                   [ date |-> stats.dailyStats[k].date,
                                     count |-> stats.dailyStats[k].count,
                                     dayName |-> DayName(stats.dailyStats[k].date, tz) ] ]),
          weekly |-> [ i \in 1..7 |->
                         [ day |-> i - 1, count |-> stats.weeklyStats[i - 1] ] ] ]

\* date.toISOString() of an Invalid Date throws a RangeError; the forEach
\* reaches it for the first entry whose timestamp is not a date
ToISOStringThrows(data, selected) ==
    \E i \in 1..Len(DataForProcessing(data, selected)) :
        DataForProcessing(data, selected)[i].timestamp = BadTs

\* the timeData memo; weekday d stands for weekdays[d], Sunday first; the
\* hours are seeded 0..23 in the Map, which the sort by hourNum leaves so
TimeData(data, selected, tz) ==
    IF Len(DataForProcessing(data, selected)) = 0 THEN NoTimeData
    ELSE TimeDataSeeded(data, selected, tz)

\* the label of a bucket: hour, dayName or day, whichever the item has
LabelOf(item) ==
    IF "hourNum" \in DOMAIN item THEN item.hourNum
    ELSE IF "dayName" \in DOMAIN item THEN item.dayName
    ELSE item.day

\* the reduce that takes a later item of the same count
RECURSIVE PeakReduceLast(_, _, _)
PeakReduceLast(currentData, i, max) ==
    IF i > Len(currentData) THEN max
    ELSE PeakReduceLast(currentData, i + 1,
                        IF currentData[i].count >= max.count THEN currentData[i] ELSE max)

\* currentData.reduce((max, item) => item.count > max.count ? item : max, currentData[0])
RECURSIVE PeakReduce(_, _, _)
PeakReduce(currentData, i, max) ==
    IF i > Len(currentData) THEN max
    ELSE PeakReduce(currentData, i + 1,
                    IF currentData[i].count > max.count THEN currentData[i] ELSE max)

NoLabel == -1               \* the label "N/A"

\* the peakTime memo
PeakTime(currentData) ==
    IF Len(currentData) = 0 THEN [ count |-> 0, label |-> NoLabel ]
    ELSE LET maxItem == PeakReduce(currentData, 1, currentData[1])
         IN  [ count |-> maxItem.count, label |-> LabelOf(maxItem) ]

----------------------------------------------------------------------------
(* KeyboardAnalysis.  Here the trigger of an entry is spelled out: a        *)
(* sequence of pieces of text, the literals "Hot Key " and " is pressed"    *)
(* and single characters; a modifier symbol is named by its code point.     *)

HotKeyTok == "Hot Key "
PressedTok == " is pressed"

MODIFIER_SYMBOLS ==
    << [ symbol |-> "U+2318", name |-> "Cmd" ],
       [ symbol |-> "U+2325", name |-> "Option" ],
       [ symbol |-> "U+2303", name |-> "Ctrl" ],
       [ symbol |-> "U+21E7", name |-> "Shift" ] >>

Max(S) == CHOOSE x \in S : \A y \in S : y <= x

\* entry.trigger.includes("Hot Key")
IncludesHotKey(trigger) == \E i \in 1..Len(trigger) : trigger[i] = HotKeyTok

\* where /Hot Key (.+) is pressed/ can start: something, one character at
\* least, stands between the two literals
HotKeyMatchAt(trigger) ==
    { i \in 1..Len(trigger) :
        /\ trigger[i] = HotKeyTok
        /\ \E j \in (i + 2)..Len(trigger) : trigger[j] = PressedTok }

\* match[1]: from the leftmost start, (.+) takes all up to the last " is pressed"
CombinationOf(trigger) ==
    LET i == Min(HotKeyMatchAt(trigger))
        j == Max({ k \in (i + 2)..Len(trigger) : trigger[k] = PressedTok })
    IN  SubSeq(trigger, i + 1, j - 1)

\* str.includes(symbol)
Includes(str, symbol) == \E i \in 1..Len(str) : str[i] = symbol

\* str.replace(symbol, ""): a text pattern replaces the first occurrence only
Replace(str, symbol) ==
    IF ~Includes(str, symbol) THEN str
    ELSE LET i == Min({ k \in 1..Len(str) : str[k] = symbol })
         IN  SubSeq(str, 1, i - 1) \o SubSeq(str, i + 1, Len(str))

\* str.toUpperCase(); the symbols have no upper case
toUpperCase(str) ==
    [ i \in 1..Len(str) |->
        CASE str[i] = "t" -> "T"
          [] str[i] = "q" -> "Q"
          [] OTHER -> str[i] ]

\* map.set(key, 1): the count the key had is forgotten
MapSetOne(map, key) ==
    IF \E k \in 1..Len(map) : map[k].key = key
    THEN [ k \in 1..Len(map) |->
             IF map[k].key = key THEN [ map[k] EXCEPT !.count = 1 ] ELSE map[k] ]
    ELSE Append(map, [ key |-> key, count |-> 1 ])

\* map.set(key, (map.get(key) || 0) + 1): the Map keeps the keys in the order
\* of their first insertion
MapIncrement(map, key) ==
    IF \E k \in 1..Len(map) : map[k].key = key
    THEN [ k \in 1..Len(map) |->
             IF map[k].key = key THEN [ map[k] EXCEPT !.count = @ + 1 ] ELSE map[k] ]
    ELSE Append(map, [ key |-> key, count |-> 1 ])

\* Object.entries(MODIFIER_SYMBOLS).forEach: modifierStats and key after the
\* symbols from the m-th on
RECURSIVE ParseModifiers(_, _, _)
ParseModifiers(combination, m, acc) ==
    IF m > Len(MODIFIER_SYMBOLS) THEN acc
    ELSE ParseModifiers(combination, m + 1,
            IF Includes(combination, MODIFIER_SYMBOLS[m].symbol)
            THEN [ modifierStats |-> MapIncrement(acc.modifierStats,
                                                  MODIFIER_SYMBOLS[m].name),
                   key |-> Replace(acc.key, MODIFIER_SYMBOLS[m].symbol) ]
            ELSE acc)

\* the body of hotKeys.forEach
HotKeyStep(acc, entry) ==
    IF HotKeyMatchAt(entry.trigger) = {} THEN acc
    ELSE LET combination == CombinationOf(entry.trigger)
             split == ParseModifiers(combination, 1,
                                     [ modifierStats |-> acc.modifierStats,
                                       key |-> combination ])
         IN  [ combinationStats |-> MapIncrement(acc.combinationStats, combination),
               modifierStats |-> split.modifierStats,
               keyStats |-> IF split.key # << >>
                            THEN MapIncrement(acc.keyStats, toUpperCase(split.key))
                            ELSE acc.keyStats ]

RECURSIVE HotKeyFold(_, _, _)
HotKeyFold(hotKeys, i, acc) ==
    IF i > Len(hotKeys) THEN acc
    ELSE HotKeyFold(hotKeys, i + 1, HotKeyStep(acc, hotKeys[i]))

\* the hotKeyData memo; each list sorted by count descending
HotKeyData(data) ==
    LET hotKeys == SelectSeq(data, LAMBDA entry : IncludesHotKey(entry.trigger))
        stats == HotKeyFold(hotKeys, 1, [ keyStats |-> << >>, modifierStats |-> << >>,
                                          combinationStats |-> << >> ])
    IN  [ keyStats |-> SortByCountDesc(stats.keyStats),
          modifierStats |-> SortByCountDesc(stats.modifierStats),
          combinationStats |-> SortByCountDesc(stats.combinationStats) ]

\* 1000 * Math.log(n), rounded, for n = 1, 2, ..
LnMilli == << 0, 693, 1099, 1386, 1609, 1792, 1946, 2079, 2197, 2303 >>

\* hotKeyData.keyStats.find(([k]) => k === key.toUpperCase())?.[1] || 0
KeyCount(keyStats, key) ==
    IF \E k \in 1..Len(keyStats) : keyStats[k].key = toUpperCase(key)
    THEN keyStats[Min({ k \in 1..Len(keyStats) : keyStats[k].key = toUpperCase(key) })].count
    ELSE 0

\* Math.max(...hotKeyData.keyStats.map(([, count]) => count), 1)
MaxCount(keyStats) == Max({ keyStats[k].count : k \in 1..Len(keyStats) } \cup {1})

\* the intensity with log(count) for log(count + 1)
getKeyIntensityNoPlusOne(keyStats, key) ==
    LET count == KeyCount(keyStats, key)
    IN  IF count = 0 THEN 0
        ELSE (1000 * LnMilli[count]) \div LnMilli[MaxCount(keyStats) + 1]

\* getKeyIntensity(key), in thousandths
getKeyIntensity(keyStats, key) ==
    LET count == KeyCount(keyStats, key)
        logCount == LnMilli[count + 1]
        logMaxCount == LnMilli[MaxCount(keyStats) + 1]
    IN  IF count = 0 THEN 0 ELSE (1000 * logCount) \div logMaxCount

----------------------------------------------------------------------------
(* Harness for deduplicateEntries: any ascending sequence, any window. *)

IdleHome ==
    /\ logData = << >>
    /\ analysisOptions = [ deduplicate |-> TRUE, deduplicationWindow |-> 1000,
                           start |-> Null, end |-> Null ]
    /\ sidebarOpen = TRUE
    /\ filteredData = << >>
    /\ macroStats = << >>
    /\ selectedMacroNames = {}
    /\ statsChanged = FALSE
    /\ statsSame = TRUE
    /\ macrosForAnalysis = << >>
    /\ dataForProcessing = << >>
    /\ activeTab = "macros"
    /\ gridSelected = {}

IdleParse == content = << >> /\ parsed = << >>

\* the totals of the General tab, of the entries in data
GeneralDisplayStats(data) ==
    [ uniqueMacros    |-> Cardinality({ data[i].macroName : i \in 1..Len(data) }),
      totalExecutions |-> Len(data) ]

IdleStats ==
    /\ gridRowData = << >>
    /\ chartDataInput = << >>
    /\ generalDisplayStats = GeneralDisplayStats(<< >>)

IdleTime ==
    /\ tzOffset = 0
    /\ viewMode = "daily"
    /\ timeData = [ hourly |-> << >>, daily |-> << >>, weekly |-> << >> ]
    /\ peakTime = [ count |-> 0, label |-> -1 ]     \* "N/A"

IdleKeys ==
    /\ hotKeyData = [ keyStats |-> << >>, modifierStats |-> << >>,
                      combinationStats |-> << >> ]
    /\ keyIntensity = << >>

NullError == "null"         \* useState<string | null>(null)
NoFile == << >>             \* no file was chosen yet

IdleSidebar ==
    /\ truncateLines = TRUE
    /\ maxLines = 10000
    /\ error = NullError
    /\ readers = << >>
    /\ alerts = 0
    /\ consoleLast = ""
    /\ inputFile = NoFile

IdleViews == IdleStats /\ IdleTime /\ IdleKeys /\ IdleSidebar

IdleDedup ==
    /\ entries = << >> /\ windowMs = 0
    /\ deduplicated = << >> /\ rededuplicated = << >>

InitDedup ==
    /\ pc = "call"
    /\ entries \in AscendingSeqs
    /\ windowMs \in Windows
    /\ deduplicated = << >>
    /\ rededuplicated = << >>
    /\ IdleParse
    /\ IdleHome
    /\ IdleViews

Deduplicate ==
    /\ pc = "call"
    /\ deduplicated' = deduplicateEntries(entries, windowMs)
    /\ pc' = "once"
    /\ UNCHANGED << entries, windowMs, rededuplicated, parseVars, homeVars, viewVars >>

DeduplicateAgain ==
    /\ pc = "once"
    /\ rededuplicated' = deduplicateEntries(deduplicated, windowMs)
    /\ pc' = "twice"
    /\ UNCHANGED << entries, windowMs, deduplicated, parseVars, homeVars, viewVars >>

NextDedup == Deduplicate \/ DeduplicateAgain

SpecDedup == InitDedup /\ [][NextDedup]_vars

----------------------------------------------------------------------------
(* Harness for parseLogData: any text of up to MaxLines lines. *)

\* 2024-01-01 09:00:00 Execute macro "A" from trigger Editor
GoodLine(ts, name) ==
    << TsTok(ts), ExecTok, QTok, TextTok(name), QTok, FromTok, TextTok("Editor") >>

GoodLines == { GoodLine(ts, n) : ts \in Timestamps, n \in { "A", "B" } }

OtherLines ==
    { << >>,                                                     \* empty
      << TextTok(" ") >>,                                        \* white space
      << TsTok(0), TextTok("Engine starting") >>,                \* another event
      \* smart quotes around the name
      << TsTok(MaxSec), ExecTok, LqTok, TextTok("A"), RqTok, FromTok, TextTok("HotKey") >>,
      \* no leading timestamp
      << ExecTok, QTok, TextTok("A"), QTok, FromTok, TextTok("Editor") >>,
      \* no quoted name after Execute macro
      << TsTok(0), ExecTok, TextTok("A"), FromTok, TextTok("Editor") >>,
      << TsTok(0), ExecTok, QTok, TextTok("A"), FromTok, TextTok("Editor") >>,
      \* nothing after from trigger
      << TsTok(0), ExecTok, QTok, TextTok("A"), QTok, FromTok >>,
      \* no Execute macro
      << TsTok(0), TextTok("Run"), QTok, TextTok("A"), QTok, FromTok, TextTok("Editor") >> }

Lines == GoodLines \cup OtherLines

InitParse ==
    /\ pc = "call"
    /\ content \in SeqsUpTo(Lines, MaxLines)
    /\ parsed = << >>
    /\ IdleDedup
    /\ IdleHome
    /\ IdleViews

ParseLogData ==
    /\ pc = "call"
    /\ parsed' \in parseLogData(content)
    /\ pc' = "parsed"
    /\ UNCHANGED << content, dedupVars, homeVars, viewVars >>

NextParse == ParseLogData

SpecParse == InitParse /\ [][NextParse]_vars

\* parseLogData on logs whose lines differ in what stands between the quotes:
\* a name, nothing, white space only
NameLines ==
    { GoodLine(0, "A"),
      << TsTok(1), ExecTok, QTok, QTok, FromTok, TextTok("Editor") >>,
      << TsTok(2), ExecTok, QTok, TextTok(" "), QTok, FromTok, TextTok("Editor") >>,
      << TsTok(0), TextTok("Engine starting") >> }

InitParseNames ==
    /\ pc = "call"
    /\ content \in SeqsUpTo(NameLines, MaxLines)
    /\ parsed = << >>
    /\ IdleDedup
    /\ IdleHome
    /\ IdleViews

SpecParseNames == InitParseNames /\ [][NextParse]_vars

----------------------------------------------------------------------------
(* Harness for the selection filters: any statistics, entries, selection. *)

InitFilter ==
    /\ pc = "call"
    /\ filteredData \in AscendingSeqs
    /\ macroStats = MacroStats(filteredData)
    /\ selectedMacroNames \in SUBSET Names
    /\ logData = << >>
    /\ analysisOptions = [ deduplicate |-> TRUE, deduplicationWindow |-> 1000,
                           start |-> Null, end |-> Null ]
    /\ sidebarOpen = TRUE
    /\ statsChanged = FALSE
    /\ statsSame = TRUE
    /\ macrosForAnalysis = << >>
    /\ dataForProcessing = << >>
    /\ activeTab = "macros"
    /\ gridSelected = {}
    /\ IdleParse
    /\ IdleDedup
    /\ IdleViews

FilterViews ==
    /\ pc = "call"
    /\ macrosForAnalysis' = MacrosForAnalysis(macroStats, selectedMacroNames)
    /\ dataForProcessing' = DataForProcessing(filteredData, selectedMacroNames)
    /\ pc' = "filtered"
    /\ UNCHANGED << logData, analysisOptions, sidebarOpen, filteredData, macroStats,
                    selectedMacroNames, statsChanged, statsSame, activeTab,
                    gridSelected, parseVars, dedupVars, viewVars >>

NextFilter == FilterViews

SpecFilter == InitFilter /\ [][NextFilter]_vars

----------------------------------------------------------------------------
(* Home: the handlers, each with the render it schedules, and the effects   *)
(* that run after the commit.  Nothing else runs between a handler and the  *)
(* effects of its render.                                                  *)

\* the logs onLogDataChange receives: parsed, not empty; here one execution
\* per second from second 0 on, the macro names numbered in the order of
\* their first execution (the first is NameOf[1], a name is used only after
\* the names before it)
LoadableLogs ==
    { [ i \in 1..Len(ix) |-> LogEntry(i - 1, NameOf[ix[i]], "Editor") ] :
        ix \in { f \in UNION { [1..k -> 1..NumNames] : k \in 1..MaxLen } :
                   \A i \in 1..Len(f) :
                       \A n \in 1..(f[i] - 1) : \E j \in 1..(i - 1) : f[j] = n } }

\* the bounds the date picker can set
DateBounds == { Null, 1000 }

\* e.target.value of the number input: an optional minus sign and digits, or
\* the empty text (which is also what the input gives for text that is not a
\* number)
InputText(neg, digits) == [ neg |-> neg, digits |-> digits ]

\* the texts typed into the window field: "", "-500", "1000", "2000"
WindowInputs == { InputText(FALSE, NaN), InputText(TRUE, 500),
                  InputText(FALSE, 1000), InputText(FALSE, 2000) }

parseInt(text) ==
    IF text.digits = NaN THEN NaN
    ELSE IF text.neg THEN 0 - text.digits ELSE text.digits

\* x || 0
OrZero(x) == IF x = NaN \/ x = 0 THEN 0 ELSE x

HasGrid(tab) == tab \in { "macros", "time" }

\* macrosForAnalysis is the allMacroStats array itself
FastPath(stats, selected) ==
    /\ Len(stats) > 0
    /\ Cardinality(selected) > 0
    /\ Cardinality(selected) = Cardinality(StatNames(stats))

\* allMacroStats after MacroAnalysis rendered: chartDataInput sorts
\* macrosForAnalysis in place
StatsAfterChart(stats, selected, tab) ==
    IF tab = "macros" /\ FastPath(stats, selected) THEN SortByCountDesc(stats) ELSE stats

\* the children's memos for the props of this render
RenderViews(stats, data, selected, tab) ==
    /\ macrosForAnalysis' = SortByCountDesc(MacrosForAnalysis(stats, selected))
    /\ dataForProcessing' = DataForProcessing(data, selected)
    /\ macroStats' = StatsAfterChart(stats, selected, tab)

\* render after logData or analysisOptions (edit) changed: both memos of Home
\* are computed anew, the grid gets new rows
RenderData(log, opts, edit) ==
    LET data == FilteredData(log, opts)
        stats == MacroStats(data)
    IN  /\ filteredData' = data
        /\ RenderViews(stats, data, selectedMacroNames, activeTab)
        /\ statsChanged' = TRUE
        /\ statsSame' = ( /\ edit
                          /\ { stats[k] : k \in 1..Len(stats) }
                               = { macroStats[k] : k \in 1..Len(macroStats) } )
        /\ gridSelected' = {}
        /\ pc' = "commit"

\* handleFile / handleLoadSampleData: onLogDataChange(parsed)
LoadData ==
    /\ pc = "idle"
    /\ \E log \in LoadableLogs :
          /\ logData' = log
          /\ RenderData(log, analysisOptions, FALSE)
    /\ UNCHANGED << analysisOptions, sidebarOpen, selectedMacroNames, activeTab,
                    parseVars, dedupVars, viewVars >>

EditOptions(opts) ==
    /\ analysisOptions' = opts
    /\ RenderData(logData, opts, TRUE)
    /\ UNCHANGED << logData, sidebarOpen, selectedMacroNames, activeTab,
                    parseVars, dedupVars, viewVars >>

\* DateRangePicker.onDateRangeChange
SetDateRange ==
    /\ pc = "idle"
    /\ \E start \in DateBounds, end \in DateBounds :
          EditOptions([ analysisOptions EXCEPT !.start = start, !.end = end ])

\* Clear Date Range button, shown while a bound is set
ClearDateRange ==
    /\ pc = "idle"
    /\ analysisOptions.start # Null \/ analysisOptions.end # Null
    /\ EditOptions([ analysisOptions EXCEPT !.start = Null, !.end = Null ])

\* Switch.onCheckedChange
ToggleDeduplicate ==
    /\ pc = "idle"
    /\ EditOptions([ analysisOptions EXCEPT !.deduplicate = ~@ ])

\* Input dedup-window onChange, disabled while deduplicate is off
SetWindow ==
    /\ pc = "idle"
    /\ analysisOptions.deduplicate
    /\ \E text \in WindowInputs :
          EditOptions([ analysisOptions EXCEPT
                          !.deduplicationWindow = OrZero(parseInt(text)) ])

\* Settings button: setSidebarOpen(!sidebarOpen); no memo, no effect reruns
ToggleSidebar ==
    /\ pc = "idle"
    /\ sidebarOpen' = ~sidebarOpen
    /\ UNCHANGED << pc, logData, analysisOptions, filteredData, macroStats,
                    selectedMacroNames, statsChanged, statsSame, macrosForAnalysis,
                    dataForProcessing, activeTab, gridSelected, parseVars, dedupVars, viewVars >>

\* onSelectionChangedHandler after the user changed the checked rows
UserSelects(rows) ==
    /\ gridSelected' = rows
    /\ selectedMacroNames' = rows
    /\ RenderViews(macroStats, filteredData, rows, activeTab)
    /\ statsChanged' = FALSE
    /\ statsSame' = TRUE
    /\ pc' = "commit"
    /\ UNCHANGED << logData, analysisOptions, sidebarOpen, filteredData, activeTab,
                    parseVars, dedupVars, viewVars >>

\* a click on a row of the table
ToggleRow ==
    /\ pc = "idle"
    /\ HasGrid(activeTab)
    /\ \E name \in StatNames(macroStats) :
          UserSelects(IF name \in gridSelected
                      THEN gridSelected \ {name} ELSE gridSelected \cup {name})

\* the header checkbox: all rows or none
ToggleAllRows ==
    /\ pc = "idle"
    /\ HasGrid(activeTab)
    /\ macroStats # << >>
    /\ UserSelects(IF gridSelected = StatNames(macroStats)
                   THEN {} ELSE StatNames(macroStats))

\* TabsTrigger: the other TabsContent is mounted, with a table of its own
SwitchTab ==
    /\ pc = "idle"
    /\ \E tab \in { "macros", "keyboard", "time" } \ {activeTab} :
          /\ activeTab' = tab
          /\ RenderViews(macroStats, filteredData, selectedMacroNames, tab)
    /\ gridSelected' = {}
    /\ statsChanged' = FALSE
    /\ statsSame' = TRUE
    /\ pc' = "commit"
    /\ UNCHANGED << logData, analysisOptions, sidebarOpen, filteredData,
                    selectedMacroNames, parseVars, dedupVars, viewVars >>

\* the table's effect: every row is checked iff its name is selected
SyncedRows(stats, selected, tab) ==
    IF HasGrid(tab) THEN selected \cap StatNames(stats) ELSE {}

\* the selection after the table's effect: a row whose state was changed
\* raises selectionChanged, and the handler passes the checked rows on
SelectionAfterSync(stats, selected, tab, checked) ==
    IF SyncedRows(stats, selected, tab) # checked
    THEN SyncedRows(stats, selected, tab) ELSE selected

\* the selection after Home's effect, which runs when macroStats is new
SelectionAfterResetSkipped(stats, selected, changed) == selected

SelectionAfterReset(stats, selected, changed) ==
    IF changed THEN AllMacroNames(stats) ELSE selected

\* the effects of one commit, children first, and the render they schedule
CommitEffects ==
    /\ pc = "commit"
    /\ LET synced == SyncedRows(macroStats, selectedMacroNames, activeTab)
           afterSync == SelectionAfterSync(macroStats, selectedMacroNames,
                                           activeTab, gridSelected)
           selected == SelectionAfterReset(macroStats, afterSync, statsChanged)
           set == synced # gridSelected \/ statsChanged
       IN  /\ gridSelected' = synced
           /\ selectedMacroNames' = selected
           /\ IF set
              THEN /\ RenderViews(macroStats, filteredData, selected, activeTab)
                   /\ pc' = "commit"
              ELSE /\ UNCHANGED << macroStats, macrosForAnalysis, dataForProcessing >>
                   /\ pc' = "idle"
    /\ statsChanged' = FALSE
    /\ statsSame' = TRUE
    /\ UNCHANGED << logData, analysisOptions, sidebarOpen, filteredData, activeTab,
                    parseVars, dedupVars, viewVars >>

Init ==
    /\ pc = "idle"
    /\ IdleHome
    /\ IdleParse
    /\ IdleDedup
    /\ IdleViews

Next ==
    \/ LoadData
    \/ SetDateRange
    \/ ClearDateRange
    \/ ToggleDeduplicate
    \/ SetWindow
    \/ ToggleSidebar
    \/ ToggleRow
    \/ ToggleAllRows
    \/ SwitchTab
    \/ CommitEffects

Spec == Init /\ [][Next]_vars

\* an effect of a commit runs before the next event is handled
SpecLive == Spec /\ WF_vars(CommitEffects)

----------------------------------------------------------------------------
(* Harness for the macro statistics: macroStats of any log parseLogData can *)
(* return, then the ranking the table and the chart make of it.             *)

\* the timestamps of the logs: the first second, and for every later day the
\* same second and the second after it; and digits that are not a date
StatTimes == {0} \cup { d * 86400 + sec : d \in 1..MaxDays, sec \in 0..1 } \cup {BadTs}

\* an entry of a line `Execute macro ""`, which parseLogData returns with the
\* empty name
EmptyNameEntry == LogEntry(0, "", "Editor")

StatEntries ==
    { LogEntry(ts, n, "Editor") : ts \in StatTimes, n \in Names } \cup {EmptyNameEntry}

\* es is a sequence the sort of parseLogData can return
IsParseOutput(es) ==
    ConsistentComparator(es) => IsStableOrder(es, [ i \in 1..Len(es) |-> i ])

StatLogs == { es \in SeqsUpTo(StatEntries, MaxLen) : IsParseOutput(es) }

InitStats ==
    /\ pc = "call"
    /\ filteredData \in StatLogs
    /\ logData = filteredData
    /\ analysisOptions = [ deduplicate |-> FALSE, deduplicationWindow |-> 1000,
                           start |-> Null, end |-> Null ]
    /\ sidebarOpen = TRUE
    /\ macroStats = << >>
    /\ selectedMacroNames = {}
    /\ statsChanged = FALSE
    /\ statsSame = TRUE
    /\ macrosForAnalysis = << >>
    /\ dataForProcessing = << >>
    /\ activeTab = "macros"
    /\ gridSelected = {}
    /\ IdleParse
    /\ IdleDedup
    /\ IdleViews

\* Home renders: the macroStats memo and the generalDisplayStats memo
AggregateMacroStats ==
    /\ pc = "call"
    /\ macroStats' = MacroStats(filteredData)
    /\ generalDisplayStats' = GeneralDisplayStats(filteredData)
    /\ pc' = "aggregated"
    /\ UNCHANGED << logData, analysisOptions, sidebarOpen, filteredData,
                    selectedMacroNames, statsChanged, statsSame, macrosForAnalysis,
                    dataForProcessing, activeTab, gridSelected, gridRowData,
                    chartDataInput, parseVars, dedupVars, timeVars, keyVars,
                    sidebarVars >>

\* MacroAnalysis renders with a selection: macrosForAnalysis, chartDataInput
\* (sorted in place), then its table: gridRowData (a sorted copy)
RankMacroStats ==
    /\ pc = "aggregated"
    /\ \E selected \in SUBSET StatNames(macroStats) :
          /\ selectedMacroNames' = selected
          /\ macrosForAnalysis' = SortByCountDesc(MacrosForAnalysis(macroStats, selected))
          /\ chartDataInput' = SortByCountDesc(MacrosForAnalysis(macroStats, selected))
          /\ macroStats' = StatsAfterChart(macroStats, selected, activeTab)
          /\ gridRowData' = SortByCountDesc(StatsAfterChart(macroStats, selected, activeTab))
    /\ pc' = "ranked"
    /\ UNCHANGED << logData, analysisOptions, sidebarOpen, filteredData,
                    statsChanged, statsSame, dataForProcessing, activeTab,
                    gridSelected, generalDisplayStats, parseVars, dedupVars,
                    timeVars, keyVars, sidebarVars >>

NextStats == AggregateMacroStats \/ RankMacroStats

SpecStats == InitStats /\ [][NextStats]_vars

----------------------------------------------------------------------------
(* Harness for TimeAnalysis: any log of dates, any selection, any host      *)
(* timezone; then the three view modes.                                     *)

\* the first and the last hour of the days 0..MaxDays
TimeStamps == { d * 86400 + h * 3600 : d \in 0..MaxDays, h \in { 0, 23 } }

TimeEntries == { LogEntry(ts, n, "Editor") : ts \in TimeStamps, n \in Names }

\* a line of macro A whose timestamp has the shape of a date and is not one
BadTimeEntry == LogEntry(BadTs, "A", "Editor")

TimeLogs == { es \in SeqsUpTo(TimeEntries \cup {BadTimeEntry}, MaxLen) :
                IsParseOutput(es) }

InitTime ==
    /\ pc = "call"
    /\ filteredData \in TimeLogs
    /\ tzOffset \in TzOffsets
    /\ viewMode = "daily"
    /\ timeData = NoTimeData
    /\ peakTime = [ count |-> 0, label |-> NoLabel ]
    /\ logData = filteredData
    /\ analysisOptions = [ deduplicate |-> FALSE, deduplicationWindow |-> 1000,
                           start |-> Null, end |-> Null ]
    /\ sidebarOpen = TRUE
    /\ macroStats = << >>
    /\ selectedMacroNames = {}
    /\ statsChanged = FALSE
    /\ statsSame = TRUE
    /\ macrosForAnalysis = << >>
    /\ dataForProcessing = << >>
    /\ activeTab = "time"
    /\ gridSelected = {}
    /\ IdleParse
    /\ IdleDedup
    /\ IdleStats
    /\ IdleKeys
    /\ IdleSidebar

\* TimeAnalysis renders with a selection: timeData, then peakTime; an
\* exception in the memo ends the render
AggregateTimeBuckets ==
    /\ pc = "call"
    /\ \E selected \in SUBSET Names :
          /\ selectedMacroNames' = selected
          /\ dataForProcessing' = DataForProcessing(filteredData, selected)
          /\ IF ToISOStringThrows(filteredData, selected)
             THEN /\ pc' = "RangeError"
                  /\ UNCHANGED << timeData, peakTime >>
             ELSE /\ timeData' = TimeData(filteredData, selected, tzOffset)
                  /\ peakTime' = PeakTime(TimeData(filteredData, selected,
                                                    tzOffset)[viewMode])
                  /\ pc' = "bucketed"
    /\ UNCHANGED << logData, analysisOptions, sidebarOpen, filteredData, macroStats,
                    statsChanged, statsSame, macrosForAnalysis, activeTab,
                    gridSelected, tzOffset, viewMode, parseVars, dedupVars, statVars,
                    keyVars, sidebarVars >>

\* the By Hour / By Day / By Weekday buttons, disabled while the view has no
\* bucket: setViewMode, and the render after it
SetViewMode ==
    /\ pc = "bucketed"
    /\ Len(timeData[viewMode]) > 0
    /\ \E mode \in { "hourly", "daily", "weekly" } \ {viewMode} :
          /\ viewMode' = mode
          /\ peakTime' = PeakTime(timeData[mode])
    /\ UNCHANGED << pc, homeVars, tzOffset, timeData, parseVars, dedupVars, statVars,
                    keyVars, sidebarVars >>

NextTime == AggregateTimeBuckets \/ SetViewMode

SpecTime == InitTime /\ [][NextTime]_vars

----------------------------------------------------------------------------
(* Harness for KeyboardAnalysis: any log of up to MaxLen entries with the   *)
(* triggers below.                                                         *)

HotKey(combination) == << HotKeyTok >> \o combination \o << PressedTok >>

KeyTriggers ==
    { << "E", "d", "i", "t", "o", "r" >>,               \* not a hot key
      << HotKeyTok, "U+2318", "T" >>,                    \* no " is pressed"
      << HotKeyTok, PressedTok >>,                       \* nothing between the two
      HotKey(<< "U+2318", "U+21E7", "T" >>),             \* Cmd Shift T
      HotKey(<< "U+2318", "t" >>),                       \* Cmd t
      HotKey(<< "T" >>),                                 \* T alone
      HotKey(<< "q" >>),
      HotKey(<< "U+21E7" >>),                            \* modifiers only
      HotKey(<< "U+2325", "U+2303" >>),
      HotKey(<< "U+2318", "U+2318" >>),                  \* a symbol twice
      HotKey(<< "U+2318", "U+2318", "T" >>) }

KeyEntries == { LogEntry(0, "A", trigger) : trigger \in KeyTriggers }

\* keys of KEYBOARD_LAYOUT
LayoutKeys == { << "T" >>, << "Q" >>, << "W" >> }

InitKeys ==
    /\ pc = "call"
    /\ filteredData \in SeqsUpTo(KeyEntries, MaxLen)
    /\ logData = filteredData
    /\ analysisOptions = [ deduplicate |-> FALSE, deduplicationWindow |-> 1000,
                           start |-> Null, end |-> Null ]
    /\ sidebarOpen = TRUE
    /\ macroStats = << >>
    /\ selectedMacroNames \in SUBSET { "A" }       \* the rows checked in the table
    /\ statsChanged = FALSE
    /\ statsSame = TRUE
    /\ macrosForAnalysis = << >>
    /\ dataForProcessing = << >>
    /\ activeTab = "keyboard"
    /\ gridSelected = {}
    /\ IdleParse
    /\ IdleDedup
    /\ IdleStats
    /\ IdleTime
    /\ IdleKeys
    /\ IdleSidebar

\* KeyboardAnalysis renders: hotKeyData, then the keys of the keyboard
AggregateHotkeyStats ==
    /\ pc = "call"
    /\ hotKeyData' = HotKeyData(filteredData)
    /\ keyIntensity' = [ key \in LayoutKeys |->
                           getKeyIntensity(HotKeyData(filteredData).keyStats, key) ]
    /\ pc' = "keys"
    /\ UNCHANGED << homeVars, parseVars, dedupVars, statVars, timeVars, sidebarVars >>

NextKeys == AggregateHotkeyStats

SpecKeys == InitKeys /\ [][NextKeys]_vars

----------------------------------------------------------------------------
(* AnalysisSidebar.handleFile: the upload of a file.  The handler rejects a *)
(* file by its name or starts a FileReader; the reader fires onload or      *)
(* onerror later, as an event of its own.  Home handles onLogDataChange as  *)
(* LoadData does.                                                           *)

MaxPending == 1     \* FileReaders that can be reading at the same time
MaxAlerts == 1      \* no file is uploaded after this many alerts

RejectedMessage == "Please upload a .log or .txt file"
ReadErrorMessage == "Error reading file. Please try again."

\* file.name.endsWith(".log") || file.name.endsWith(".txt")
AcceptedName(file) == file.ext \in { "log", "txt" }

\* originalLines.slice(-maxLines)
SliceLast(lines, n) ==
    IF n > 0
    THEN SubSeq(lines, Max({ 1, Len(lines) - n + 1 }), Len(lines))
    ELSE SubSeq(lines, 1 - n, Len(lines))

\* the content handed to parseLogData
Truncated(lines, truncate, max) ==
    IF truncate /\ Len(lines) > max THEN SliceLast(lines, max) ELSE lines

\* parsed.length === 0 is skipped
HasEntriesSkipped(entriesFound) == TRUE

\* parsed.length === 0 shows the alert and returns
HasEntries(entriesFound) == Len(entriesFound) # 0

\* 2024-01-01 09:00:00 Engine starting
EngineLine == << TsTok(0), TextTok("Engine starting") >>

\* the files the user uploads: a spreadsheet, and logs with no line (a text
\* file), with no execution, with two executions, with an execution in the
\* last line and with an execution in the line before the last
UploadFiles ==
    { [ ext |-> "csv", content |-> << GoodLine(0, "A") >> ],
      [ ext |-> "txt", content |-> << << >> >> ],
      [ ext |-> "log", content |-> << EngineLine >> ],
      [ ext |-> "log", content |-> << GoodLine(0, "A"), GoodLine(1, "B") >> ],
      [ ext |-> "log", content |-> << EngineLine, GoodLine(0, "A") >> ],
      [ ext |-> "log", content |-> << GoodLine(0, "A"), EngineLine >> ] }

MaxLinesInputs == { 1, 10000 }

InitUpload ==
    /\ pc = "idle"
    /\ IdleHome
    /\ IdleParse
    /\ IdleDedup
    /\ IdleViews

\* the switch "Truncate large files"
ToggleTruncateLines ==
    /\ pc = "idle"
    /\ truncateLines' = ~truncateLines
    /\ UNCHANGED << pc, homeVars, parseVars, dedupVars, statVars, timeVars, keyVars,
                    maxLines, error, readers, alerts, consoleLast, inputFile >>

\* the input "Max lines", shown while the switch is on
SetMaxLines ==
    /\ pc = "idle"
    /\ truncateLines
    /\ \E n \in MaxLinesInputs \ {maxLines} : maxLines' = n
    /\ UNCHANGED << pc, homeVars, parseVars, dedupVars, statVars, timeVars, keyVars,
                    truncateLines, error, readers, alerts, consoleLast, inputFile >>

\* handleFile(file) for a file of files, dropped or chosen, while fewer than
\* pending readers are reading
HandleFileFrom(files, pending) ==
    /\ pc = "idle"
    /\ alerts < MaxAlerts
    /\ \E file \in files :
          /\ inputFile' = << [ file |-> file, truncateLines |-> truncateLines,
                                maxLines |-> maxLines ] >>
          /\ IF ~AcceptedName(file)
             THEN /\ error' = RejectedMessage
                  /\ consoleLast' = "Invalid file type"
                  /\ UNCHANGED readers
             ELSE /\ Len(readers) < pending
                  /\ error' = NullError
                  /\ consoleLast' = "Starting FileReader..."
                  /\ readers' = Append(readers, [ file |-> file,
                                                   truncateLines |-> truncateLines,
                                                   maxLines |-> maxLines ])
    /\ UNCHANGED << pc, homeVars, parseVars, dedupVars, statVars, timeVars, keyVars,
                    truncateLines, maxLines, alerts >>

\* handleFile(file): a file dropped or chosen
HandleFile == HandleFileFrom(UploadFiles, MaxPending)

RemoveAt(seq, i) == SubSeq(seq, 1, i - 1) \o SubSeq(seq, i + 1, Len(seq))

\* reader.onload of one of the readers: the text of the file, or no result
\* (e.target?.result undefined), which throws inside the try block
ReaderOnload ==
    /\ pc = "idle"
    /\ \E i \in 1..Len(readers), hasResult \in BOOLEAN :
          LET reader == readers[i]
              text == Truncated(reader.file.content, reader.truncateLines,
                                reader.maxLines)
          IN  /\ readers' = RemoveAt(readers, i)
              /\ IF ~hasResult
                 THEN /\ error' = ReadErrorMessage
                      /\ consoleLast' = "Error processing file:"
                      /\ UNCHANGED << pc, homeVars, parsed, alerts >>
                 ELSE \E entriesFound \in parseLogData(text) :
                        /\ parsed' = entriesFound
                        /\ IF ~HasEntries(entriesFound)
                           THEN /\ alerts' = alerts + 1
                                /\ consoleLast' = "No entries found, showing alert"
                                /\ UNCHANGED << pc, homeVars, error >>
                           ELSE /\ logData' = entriesFound
                                /\ RenderData(entriesFound, analysisOptions, FALSE)
                                /\ consoleLast' = "Setting log data..."
                                /\ UNCHANGED << analysisOptions, sidebarOpen,
                                                selectedMacroNames, activeTab,
                                                error, alerts >>
    /\ UNCHANGED << content, dedupVars, statVars, timeVars, keyVars, truncateLines,
                    maxLines, inputFile >>

\* reader.onerror of one of the readers
ReaderOnerror ==
    /\ pc = "idle"
    /\ \E i \in 1..Len(readers) : readers' = RemoveAt(readers, i)
    /\ error' = ReadErrorMessage
    /\ consoleLast' = "FileReader error occurred"
    /\ UNCHANGED << pc, homeVars, parseVars, dedupVars, statVars, timeVars, keyVars,
                    truncateLines, maxLines, alerts, inputFile >>

NextUpload ==
    \/ HandleFile
    \/ ReaderOnload
    \/ ReaderOnerror
    \/ ToggleTruncateLines
    \/ SetMaxLines
    \/ ToggleRow
    \/ CommitEffects

SpecUpload == InitUpload /\ [][NextUpload]_vars

\* Two uploads at a time: logs with executions in every line, so that every
\* read that succeeds loads data; one reader more may be reading than in the
\* harness above.
RaceFiles ==
    { [ ext |-> "log", content |-> << GoodLine(0, "A") >> ],
      [ ext |-> "log", content |-> << GoodLine(0, "A"), GoodLine(1, "B") >> ] }

HandleFileWhileReading == HandleFileFrom(RaceFiles, MaxPending + 1)

NextRace ==
    \/ HandleFileWhileReading
    \/ ReaderOnload
    \/ ReaderOnerror
    \/ ToggleTruncateLines
    \/ SetMaxLines
    \/ CommitEffects

SpecRace == InitUpload /\ [][NextRace]_vars

----------------------------------------------------------------------------
(* Claims about deduplicateEntries *)

\* the entries of es whose flag is set, in order
RECURSIVE Flagged(_, _, _)
Flagged(es, f, i) ==
    IF i > Len(es) THEN << >>
    ELSE (IF f[i] THEN << es[i] >> ELSE << >>) \o Flagged(es, f, i + 1)

\* index of the last flagged entry before i
LastKeptBefore(f, i) == CHOOSE j \in 1..(i - 1) :
    f[j] /\ \A k \in (j + 1)..(i - 1) : ~f[k]

\* f flags the first entry, and a later entry iff its name differs from the
\* last flagged entry's name or it is at least w ms after that entry
KeepRule(es, w, f) ==
    /\ f[1]
    /\ \A i \in 2..Len(es) :
          LET k == LastKeptBefore(f, i) IN
          f[i] <=> ( es[i].macroName # es[k].macroName
                     \/ 1000 * (es[i].timestamp - es[k].timestamp) >= w )

\* C1: deduplicate keeps the first entry and keeps each later entry iff its
\* macro name differs from the last KEPT entry's or its timestamp is at least
\* windowMs after the last kept entry's (a gap equal to windowMs is kept);
\* two same-macro entries 1000 ms apart give 1 entry for window 2000 and 2
\* entries for window 500.
C1_DedupKeepRule ==
    pc # "call" =>
        /\ entries = << >> => deduplicated = << >>
        /\ entries # << >> =>
              \E f \in [1..Len(entries) -> BOOLEAN] :
                  KeepRule(entries, windowMs, f)
                  /\ deduplicated = Flagged(entries, f, 1)
        /\ ( /\ Len(entries) = 2
             /\ entries[1].macroName = entries[2].macroName
             /\ entries[2].timestamp - entries[1].timestamp = 1 )
            => /\ windowMs = 2000 => Len(deduplicated) = 1
               /\ windowMs = 500 => Len(deduplicated) = 2
               /\ windowMs = 1000 => Len(deduplicated) = 2

\* three executions of one macro one second apart, window 2000: the second is
\* dropped and the third is kept, being 2000 ms after the last kept entry
C1_Witness ==
    /\ pc = "once"
    /\ windowMs = 2000
    /\ Len(entries) = 3
    /\ \A i \in 1..3 : entries[i].macroName = "A" /\ entries[i].timestamp = i - 1
    /\ deduplicated = << entries[1], entries[3] >>

\* C3: deduplication is idempotent: deduplicate(deduplicate(xs, w), w) equals
\* deduplicate(xs, w) for every time-ascending xs and every window w.
C3_DedupIdempotent == pc = "twice" => rededuplicated = deduplicated

\* a second pass over a result that dropped something and kept several
C3_Witness ==
    /\ pc = "twice"
    /\ Len(deduplicated) < Len(entries)
    /\ Len(deduplicated) >= 2
    /\ rededuplicated = deduplicated

----------------------------------------------------------------------------
(* Claims about parseLogData *)

\* C4: for all input texts the sequence returned by parse is sorted ascending
\* by timestamp, and entries with equal timestamps keep the relative order of
\* their lines.  Stated on the entries whose timestamp is a date.
C4_ParseSortedStable ==
    pc = "parsed" =>
        /\ \A i, j \in 1..Len(parsed) :
              ( i < j /\ parsed[i].timestamp # BadTs /\ parsed[j].timestamp # BadTs )
                  => parsed[i].timestamp <= parsed[j].timestamp
        /\ \A t \in ValidTimestamps :
              SelectSeq(parsed, LAMBDA e : e.timestamp = t)
                = SelectSeq(ParseLines(NonEmptyLines(content), 1),
                            LAMBDA e : e.timestamp = t)

\* the claim's own reading of an unparsable line
RECURSIVE HasQuotedNameAfterExec(_, _)
HasQuotedNameAfterExec(line, i) ==
    IF i + 2 > Len(line) THEN FALSE
    ELSE \/ /\ line[i] = ExecTok
            /\ line[i + 1] \in { QTok, LqTok, RqTok }
            /\ \E j \in (i + 2)..Len(line) : line[j] \in { QTok, LqTok, RqTok }
         \/ HasQuotedNameAfterExec(line, i + 1)

Unparsable(line) ==
    \/ ~(\E i \in 1..Len(line) : line[i] = ExecTok)
    \/ Len(line) = 0 \/ line[1].k # "ts"
    \/ ~HasQuotedNameAfterExec(line, 1)
    \/ ~(\E i \in 1..(Len(line) - 1) : line[i] = FromTok)

\* C5: parse never fails and recovers per line: a line that lacks
\* 'Execute macro', a leading timestamp, a double-quoted macro name after
\* 'Execute macro ', or text after 'from trigger ' produces no entry, and the
\* entries produced from the remaining lines are the same as if the
\* unparsable lines had been absent from the input.
C5_ParseSkipsBadLines ==
    pc = "parsed" =>
        LET rest == SelectSeq(content, LAMBDA line : ~Unparsable(line))
        IN  /\ Len(parsed) = Len(rest)
            /\ parsed \in parseLogData(rest)

\* an unparsable line between two parsable ones
C5_Witness ==
    /\ pc = "parsed"
    /\ Len(content) = 3
    /\ ~Unparsable(content[1]) /\ Unparsable(content[2]) /\ ~Unparsable(content[3])
    /\ content[2] # << >>
    /\ Len(parsed) = 2

----------------------------------------------------------------------------
(* Claims about the selection filters *)

NamesIn(data) == { data[i].macroName : i \in 1..Len(data) }

\* C6: filterStats returns the empty sequence when selected is empty and
\* stats is not; the full stats whenever the number of selected names equals
\* the number of distinct names in stats, whatever the names are; and
\* otherwise exactly the stats whose name is selected.
C6_FilterStatsPolicy ==
    pc = "filtered" =>
        LET n == Cardinality(selectedMacroNames)
            m == Cardinality({ macroStats[k].name : k \in 1..Len(macroStats) })
        IN  /\ (n = 0 /\ macroStats # << >>) => macrosForAnalysis = << >>
            /\ (n # 0 /\ n = m) => macrosForAnalysis = macroStats
            /\ (n # 0 /\ n # m) =>
                  /\ \A k \in 1..Len(macrosForAnalysis) :
                        macrosForAnalysis[k].name \in selectedMacroNames
                  /\ macrosForAnalysis
                       = SelectSeq(macroStats, LAMBDA st : st.name \in selectedMacroNames)

\* as many names selected as there are statistics, none of them the same
C6_Witness ==
    /\ pc = "filtered"
    /\ macroStats # << >>
    /\ Cardinality(selectedMacroNames) = Len(macroStats)
    /\ \A k \in 1..Len(macroStats) : macroStats[k].name \notin selectedMacroNames
    /\ macrosForAnalysis = macroStats

\* C7: filterEntries returns the empty sequence when selected is empty and
\* entries is not, returns entries unchanged when selected contains every
\* macro name occurring in entries, and otherwise returns, in order, exactly
\* the entries whose macro name is selected.
C7_FilterEntriesPolicy ==
    pc = "filtered" =>
        /\ (selectedMacroNames = {} /\ filteredData # << >>) => dataForProcessing = << >>
        /\ NamesIn(filteredData) \subseteq selectedMacroNames
              => dataForProcessing = filteredData
        /\ ~(NamesIn(filteredData) \subseteq selectedMacroNames) =>
              /\ NamesIn(dataForProcessing) \subseteq selectedMacroNames
              /\ dataForProcessing
                   = SelectSeq(filteredData, LAMBDA e : e.macroName \in selectedMacroNames)

\* one of two macros selected: some entries pass, some do not
C7_Witness ==
    /\ pc = "filtered"
    /\ selectedMacroNames # {}
    /\ dataForProcessing # << >>
    /\ Len(dataForProcessing) < Len(filteredData)

----------------------------------------------------------------------------
(* Claims about Home *)

\* C2: when deduplicate is enabled, filteredData is exactly the
\* Deduplicator's result (last-kept reference point) applied to the
\* date-range-filtered entries with the configured window.
C2_FilteredDataIsDeduplicator ==
    analysisOptions.deduplicate =>
        filteredData
          = deduplicateEntries(
              SelectSeq(logData,
                        LAMBDA e : /\ analysisOptions.start # Null
                                        => 1000 * e.timestamp >= analysisOptions.start
                                   /\ analysisOptions.end # Null
                                        => 1000 * e.timestamp <= analysisOptions.end),
              analysisOptions.deduplicationWindow)

\* C8: in every rendered state, the render before the selection reset
\* included, the macro names of the selection-filtered statistics equal the
\* macro names of the selection-filtered entries.
C8_ViewsConsistent ==
    { macrosForAnalysis[k].name : k \in 1..Len(macrosForAnalysis) }
      = NamesIn(dataForProcessing)

C10_SelectionFrame ==
    [][ selectedMacroNames' # selectedMacroNames
          => \/ pc = "idle" /\ gridSelected' = selectedMacroNames'
                /\ UNCHANGED << logData, analysisOptions, sidebarOpen, activeTab >>
             \/ pc = "commit" /\ statsChanged /\ ~statsSame ]_vars

----------------------------------------------------------------------------
(* Claims about the macro statistics *)

\* a <= b on numbers: false when either is NaN
LessEq(a, b) == a # NaN /\ b # NaN /\ a <= b

\* C11: every MacroStatEntry of the statistics of any filtered entry sequence
\* has count >= 1, daysDiff >= 1 and firstSeen <= lastSeen.
C11_StatsWellFormed ==
    pc = "aggregated" =>
        \A k \in 1..Len(macroStats) :
            /\ macroStats[k].count >= 1
            /\ GreaterEq(macroStats[k].daysDiff, 1)
            /\ LessEq(macroStats[k].firstSeen, macroStats[k].lastSeen)

Abs(x) == IF x < 0 THEN -x ELSE x

\* the rule of C12 for one MacroStatEntry; avgPerDay is held in tenths
AvgPerDayRule(stat) ==
    LET span == Minus(stat.lastSeen, stat.firstSeen)
    IN  /\ span # NaN /\ stat.daysDiff # NaN /\ stat.avgPerDay # NaN
        \* daysDiff is the least number of whole days, at least 1, that covers the span
        /\ stat.daysDiff >= 1
        /\ stat.daysDiff * DayMs >= span
        /\ stat.daysDiff > 1 => (stat.daysDiff - 1) * DayMs < span
        \* | avgPerDay * daysDiff - count | <= 0.05 * daysDiff
        /\ 2 * Abs(stat.avgPerDay * stat.daysDiff - 10 * stat.count) <= stat.daysDiff
        /\ stat.count = 1 => stat.daysDiff = 1 /\ stat.avgPerDay = 10
        /\ span = DayMs => stat.daysDiff = 1
        /\ span = DayMs + 1000 => stat.daysDiff = 2

\* C12: for every macro daysDiff = max(1, ceil(span in days)) and avgPerDay is
\* count / daysDiff rounded to one fraction digit, within 0.05 * daysDiff of
\* count when multiplied back; a single event gives daysDiff 1 and "1.0",
\* a span of 24 hours gives 1 and of 24 hours and a second gives 2.
C12_AvgPerDayRule ==
    pc = "aggregated" => \A k \in 1..Len(macroStats) : AvgPerDayRule(macroStats[k])

\* index of the first entry of data that names the macro
FirstSeenAt(data, name) ==
    Min({ i \in 1..Len(data) : data[i].macroName = name })

RankedByCount(stats) ==
    \A i, j \in 1..Len(stats) : i < j => stats[i].count >= stats[j].count

TiesInFirstSeenOrder(stats, data) ==
    \A i, j \in 1..Len(stats) :
        i < j /\ stats[i].count = stats[j].count
            => FirstSeenAt(data, stats[i].name) < FirstSeenAt(data, stats[j].name)

InFirstSeenOrder(stats, data) ==
    \A i, j \in 1..Len(stats) :
        i < j => FirstSeenAt(data, stats[i].name) < FirstSeenAt(data, stats[j].name)

SameStats(a, b) ==
    /\ Len(a) = Len(b)
    /\ { a[k] : k \in 1..Len(a) } = { b[k] : k \in 1..Len(b) }

----------------------------------------------------------------------------
(* Claims about TimeAnalysis *)

\* number of entries of data that satisfy P
CountOf(data, P(_)) == Cardinality({ i \in 1..Len(data) : P(data[i]) })

\* C14: the time buckets are always exactly 24 hourly buckets, hours 0..23,
\* and exactly 7 weekly buckets, Sunday..Saturday, each with the number of
\* entries that fall in it, 0 for an unused bucket; also when there is no
\* entry or the selection left none.
C14_BucketsSeeded ==
    pc = "bucketed" =>
        /\ Len(timeData.hourly) = 24
        /\ \A i \in 1..Len(timeData.hourly) :
              /\ timeData.hourly[i].hourNum = i - 1
              /\ timeData.hourly[i].count
                    = CountOf(dataForProcessing, LAMBDA e : getHours(e.timestamp) = i - 1)
        /\ Len(timeData.weekly) = 7
        /\ \A i \in 1..Len(timeData.weekly) :
              /\ timeData.weekly[i].day = i - 1
              /\ timeData.weekly[i].count
                    = CountOf(dataForProcessing, LAMBDA e : getDay(e.timestamp) = i - 1)

\* the buckets of the view are in the view's natural ascending order
NaturalOrder(mode, buckets) ==
    \A i, j \in 1..Len(buckets) :
        i < j => CASE mode = "hourly" -> buckets[i].hourNum < buckets[j].hourNum
                   [] mode = "daily" -> buckets[i].date < buckets[j].date
                   [] mode = "weekly" -> buckets[i].day < buckets[j].day

\* bucket i is the peak: of the highest count, and the first of that count
IsFirstMaximum(buckets, i) ==
    /\ \A j \in 1..Len(buckets) : buckets[j].count <= buckets[i].count
    /\ \A j \in 1..(i - 1) : buckets[j].count < buckets[i].count

\* C15: the peak of the view shown (hourly, daily or weekly) is a bucket of
\* the maximum count of that view, and of the buckets of that count the first
\* in the natural ascending order (lowest hour, earliest date, earliest
\* weekday from Sunday); a view without buckets has the peak "N/A".
C15_PeakIsFirstMaximum ==
    pc = "bucketed" =>
        LET currentData == timeData[viewMode]
        IN  /\ NaturalOrder(viewMode, currentData)
            /\ IF Len(currentData) = 0
               THEN peakTime = [ count |-> 0, label |-> NoLabel ]
               ELSE \E i \in 1..Len(currentData) :
                        /\ IsFirstMaximum(currentData, i)
                        /\ peakTime.count = currentData[i].count
                        /\ peakTime.label = LabelOf(currentData[i])

\* the hours 0 and 23 share the highest count, and the peak is hour 0
C15_Witness ==
    /\ pc = "bucketed"
    /\ viewMode = "hourly"
    /\ Len(timeData.hourly) = 24
    /\ timeData.hourly[1].count > 0
    /\ timeData.hourly[24].count = timeData.hourly[1].count
    /\ peakTime.label = 0

\* the date part of the wall-clock timestamp, as a number of days
WallClockDate(ts) == ts \div 86400

\* C16: the daily buckets are one bucket per calendar date that occurs in the
\* entries, ascending by date, where the calendar date of an entry is the
\* date part of its wall-clock timestamp, whatever the host's timezone; the
\* bucket counts the entries of that date.
C16_DailyByWallClockDate ==
    pc = "bucketed" /\ Len(dataForProcessing) > 0 =>
        /\ { timeData.daily[k].date : k \in 1..Len(timeData.daily) }
              = { WallClockDate(dataForProcessing[i].timestamp) :
                    i \in 1..Len(dataForProcessing) }
        /\ \A i, j \in 1..Len(timeData.daily) :
              i < j => timeData.daily[i].date < timeData.daily[j].date
        /\ \A k \in 1..Len(timeData.daily) :
              timeData.daily[k].count
                = CountOf(dataForProcessing,
                          LAMBDA e : WallClockDate(e.timestamp) = timeData.daily[k].date)

----------------------------------------------------------------------------
(* Claims about KeyboardAnalysis *)

ModifierSymbols == { MODIFIER_SYMBOLS[m].symbol : m \in 1..Len(MODIFIER_SYMBOLS) }

\* the trigger holds "Hot Key <combination> is pressed"
IsHotKeyTrigger(trigger) ==
    \E i, j \in 1..Len(trigger) :
        trigger[i] = HotKeyTok /\ trigger[j] = PressedTok /\ j > i + 1

\* the residual key: the combination with the modifier symbols taken out
ResidualKey(combination) == SelectSeq(combination, LAMBDA c : c \notin ModifierSymbols)

\* what is left of the combination when each modifier symbol that occurs in
\* it is taken out once, at its first place
RECURSIVE Subsequence(_, _, _)
Subsequence(str, keep, i) ==
    IF i > Len(str) THEN << >>
    ELSE (IF i \in keep THEN << str[i] >> ELSE << >>) \o Subsequence(str, keep, i + 1)

RemainderOf(combination) ==
    LET first == { i \in 1..Len(combination) :
                     /\ combination[i] \in ModifierSymbols
                     /\ \A j \in 1..(i - 1) : combination[j] # combination[i] }
    IN  Subsequence(combination, (1..Len(combination)) \ first, 1)

\* the count a list of hotKeyData gives to key, 0 when the key is not listed
StatOf(stats, key) ==
    IF \E k \in 1..Len(stats) : stats[k].key = key
    THEN (CHOOSE r \in { stats[k] : k \in 1..Len(stats) } : r.key = key).count
    ELSE 0

HotKeyEntries(data) == { i \in 1..Len(data) : IsHotKeyTrigger(data[i].trigger) }

C18_NoModifierInKeyStats ==
    pc = "keys" =>
        /\ \A k \in 1..Len(hotKeyData.keyStats) :
              \A c \in 1..Len(hotKeyData.keyStats[k].key) :
                  hotKeyData.keyStats[k].key[c] \notin ModifierSymbols
        /\ ( \A i \in HotKeyEntries(filteredData) :
                ResidualKey(CombinationOf(filteredData[i].trigger)) = << >> )
              => hotKeyData.keyStats = << >>

\* C19: the intensity of a key is ln(count + 1) / ln(maxCount + 1), maxCount
\* the highest count of a key and at least 1, so the denominator is not 0;
\* it is 0 exactly when the count is 0, in (0, 1] otherwise, 1 exactly for a
\* key of the highest count, and it does not decrease with the count.
C19_KeyIntensity ==
    pc = "keys" =>
        LET keyStats == hotKeyData.keyStats
            maxCount == Max({ keyStats[k].count : k \in 1..Len(keyStats) } \cup {1})
            count(key) == StatOf(keyStats, key)
        IN  /\ LnMilli[maxCount + 1] > 0
            /\ \A key \in LayoutKeys :
                  /\ keyIntensity[key]
                        = (1000 * LnMilli[count(key) + 1]) \div LnMilli[maxCount + 1]
                  /\ keyIntensity[key] = 0 <=> count(key) = 0
                  /\ count(key) > 0 => keyIntensity[key] > 0 /\ keyIntensity[key] <= 1000
                  /\ count(key) > 0 => (keyIntensity[key] = 1000 <=> count(key) = maxCount)
            /\ \A key, other \in LayoutKeys :
                  count(key) <= count(other) => keyIntensity[key] <= keyIntensity[other]

\* T pressed once, Q twice, W never
C19_Witness ==
    /\ pc = "keys"
    /\ StatOf(hotKeyData.keyStats, << "T" >>) = 1
    /\ StatOf(hotKeyData.keyStats, << "Q" >>) = 2
    /\ keyIntensity[<< "W" >>] = 0
    /\ keyIntensity[<< "T" >>] > 0
    /\ keyIntensity[<< "T" >>] < keyIntensity[<< "Q" >>]
    /\ keyIntensity[<< "Q" >>] = 1000

----------------------------------------------------------------------------
(* Claims about handleFile *)

\* a reader fired and its file was parsed
UploadParsed ==
    /\ Len(readers') < Len(readers)
    /\ consoleLast' \notin { "Error processing file:", "FileReader error occurred" }

\* handleFile rejected the name of the file, or a reader failed
UploadFailed ==
    /\ consoleLast' \in { "Invalid file type", "Error processing file:",
                          "FileReader error occurred" }
    /\ consoleLast' # consoleLast \/ readers' # readers

\* C20: an upload whose parse finds no entry shows one alert, sets no error
\* message and leaves the log data, the analysis options and the selection
\* (with everything Home derives from them) as they were; a file of a
\* rejected type, a failed read and an exception while the content is
\* processed end in an error message and leave them as they were, too.
C20_FailedUploadKeepsData ==
    [][ /\ UploadParsed /\ parsed' = << >> =>
            /\ alerts' = alerts + 1
            /\ error' = error
            /\ UNCHANGED << pc, homeVars >>
        /\ UploadFailed =>
            /\ alerts' = alerts
            /\ error' \in { RejectedMessage, ReadErrorMessage }
            /\ UNCHANGED << pc, homeVars >> ]_vars

\* a log is loaded, one row is unchecked, and an upload without entries has
\* shown its alert
C20_Witness ==
    /\ logData # << >>
    /\ selectedMacroNames # {}
    /\ selectedMacroNames # StatNames(macroStats)
    /\ consoleLast = "No entries found, showing alert"
    /\ parsed = << >>
    /\ alerts = 1
    /\ error = NullError

----------------------------------------------------------------------------
(* Claims about the analysis options *)

\* C21: whatever is typed into the window field, the deduplicationWindow of
\* the analysis options is a non-negative integer.
C21_WindowNonNegative ==
    /\ analysisOptions.deduplicationWindow \in Int
    /\ analysisOptions.deduplicationWindow # NaN
    /\ analysisOptions.deduplicationWindow >= 0

----------------------------------------------------------------------------
(* Claims about the frame of the derivation *)

\* C22: after macrosForAnalysis and the ranking of the chart were computed
\* for a selection, the macro statistics held by Home have the elements the
\* aggregation gave them, in the same order.
C22_StatsNotModified ==
    pc = "ranked" => macroStats = MacroStats(filteredData)

----------------------------------------------------------------------------
(* Further claims about parseLogData *)

\* C23: every entry parseLogData returns has a macro name that is not empty.
C23_MacroNameNonEmpty ==
    pc = "parsed" => \A i \in 1..Len(parsed) : parsed[i].macroName # ""

----------------------------------------------------------------------------
(* Further claims about KeyboardAnalysis *)

\* C24: the hotkey statistics are computed from the entries whose macro name
\* is selected, and are empty when no macro is selected.
C24_KeyboardUsesSelection ==
    pc = "keys" =>
        /\ hotKeyData = HotKeyData(SelectSeq(filteredData,
                             LAMBDA entry : entry.macroName \in selectedMacroNames))
        /\ selectedMacroNames = {} =>
              /\ hotKeyData.keyStats = << >>
              /\ hotKeyData.modifierStats = << >>
              /\ hotKeyData.combinationStats = << >>

----------------------------------------------------------------------------
(* Further claims about the selection filter *)

\* C25: whenever the number of selected names equals the number of distinct
\* macro names of the entries, filterEntries returns the entries unfiltered.
C25_FilterEntriesFastPath ==
    pc = "filtered" =>
        ( Cardinality(selectedMacroNames) = Cardinality(NamesIn(filteredData))
            => dataForProcessing = filteredData )

----------------------------------------------------------------------------
(* Further claims about deduplication *)

\* kept is what is left of es when some entries are dropped, none of them the
\* first entry or an entry whose name differs from the name of the entry
\* right before it
KeepsNameChanges(es, kept) ==
    /\ es = << >> => kept = << >>
    /\ es # << >> =>
          \E f \in [1..Len(es) -> BOOLEAN] :
              /\ f[1]
              /\ \A i \in 2..Len(es) : es[i].macroName # es[i - 1].macroName => f[i]
              /\ kept = Flagged(es, f, 1)
    /\ (\A i \in 2..Len(es) : es[i].macroName # es[i - 1].macroName) => kept = es

\* C26: deduplication keeps every entry whose name differs from the name of
\* the input entry right before it, whatever the window; of A, B, A all
\* three survive.  It holds for deduplicateEntries and for the filter of
\* Home.filteredData.
C26_NameChangeKept ==
    pc # "call" =>
        /\ KeepsNameChanges(entries, deduplicated)
        /\ KeepsNameChanges(entries,
              FilteredData(entries, [ deduplicate |-> TRUE,
                                      deduplicationWindow |-> windowMs,
                                      start |-> Null, end |-> Null ]))

\* A, B, A within the same second and a window of two seconds
C26_Witness ==
    /\ pc = "once"
    /\ windowMs = 2000
    /\ Len(entries) = 3
    /\ entries[1].macroName = "A" /\ entries[2].macroName = "B"
    /\ entries[3].macroName = "A"
    /\ \A i \in 1..3 : entries[i].timestamp = 0
    /\ deduplicated = entries

----------------------------------------------------------------------------
(* Further claims about TimeAnalysis *)

RECURSIVE SumOfCounts(_, _)
SumOfCounts(buckets, i) ==
    IF i > Len(buckets) THEN 0 ELSE buckets[i].count + SumOfCounts(buckets, i + 1)

\* C27: for every sequence of one entry or more that the time aggregation
\* gets, the aggregation gives the buckets, every entry is counted in the
\* hourly bucket of its hour, in the weekly bucket of its weekday and in one
\* daily bucket, and the hourly, the daily and the weekly counts each add up
\* to the number of entries.
C27_EveryEntryCountedOnce ==
    pc # "call" /\ Len(dataForProcessing) > 0 =>
        /\ pc = "bucketed"
        /\ SumOfCounts(timeData.hourly, 1) = Len(dataForProcessing)
        /\ SumOfCounts(timeData.daily, 1) = Len(dataForProcessing)
        /\ SumOfCounts(timeData.weekly, 1) = Len(dataForProcessing)
        /\ \A i \in 1..Len(timeData.hourly) :
              timeData.hourly[i].count
                = CountOf(dataForProcessing,
                          LAMBDA e : getHours(e.timestamp) = timeData.hourly[i].hourNum)
        /\ \A i \in 1..Len(timeData.weekly) :
              timeData.weekly[i].count
                = CountOf(dataForProcessing,
                          LAMBDA e : getDay(e.timestamp) = timeData.weekly[i].day)
        /\ \A i, j \in 1..Len(timeData.daily) :
              i # j => timeData.daily[i].date # timeData.daily[j].date

\* C28: when no read is in flight any more and none has failed since the last
\* file was chosen, the loaded log data is the parse of the file chosen last,
\* truncated with the settings in force when its read was started, whichever
\* read finished first.
C28_LastChosenFileLoaded ==
    ( /\ pc = "idle"
      /\ readers = << >>
      /\ inputFile # NoFile
      /\ error = NullError )
    => logData \in parseLogData(Truncated(inputFile[1].file.content,
                                           inputFile[1].truncateLines,
                                           inputFile[1].maxLines))

----------------------------------------------------------------------------
(* Deduplication and the window *)

\* kept is es with some entries dropped, the first entry not among them
IsSubsequenceWithFirst(es, kept) ==
    IF es = << >> THEN kept = << >>
    ELSE \E f \in [1..Len(es) -> BOOLEAN] : f[1] /\ kept = Flagged(es, f, 1)

\* the filter of Home.filteredData with deduplication on and no date range
InlineDeduplicated(es, w) ==
    FilteredData(es, [ deduplicate |-> TRUE, deduplicationWindow |-> w,
                       start |-> Null, end |-> Null ])

\* C29: for a time-ascending xs, deduplicate(xs, w) is xs with some entries
\* dropped, in the order of xs and with the first entry of xs; for w = 0 it is
\* xs; and a larger window keeps at most as many entries as a smaller one.
\* It holds for deduplicateEntries and for the filter of Home.filteredData.
C29_DedupMonotone ==
    pc # "call" =>
        /\ deduplicated = deduplicateEntries(entries, windowMs)
        /\ IsSubsequenceWithFirst(entries, deduplicated)
        /\ IsSubsequenceWithFirst(entries, InlineDeduplicated(entries, windowMs))
        /\ windowMs = 0 =>
              deduplicated = entries /\ InlineDeduplicated(entries, 0) = entries
        /\ \A w \in Windows :
              w <= windowMs =>
                /\ Len(deduplicated) <= Len(deduplicateEntries(entries, w))
                /\ Len(InlineDeduplicated(entries, windowMs))
                      <= Len(InlineDeduplicated(entries, w))

\* three executions of one macro one second apart: all are kept for the
\* window 1000, two for 2000 (and one for 2500)
C29_Witness ==
    /\ pc = "once"
    /\ windowMs = 2000
    /\ Len(entries) = 3
    /\ \A i \in 1..3 : entries[i].macroName = "A" /\ entries[i].timestamp = i - 1
    /\ Len(deduplicated) = 2
    /\ Len(deduplicateEntries(entries, 1000)) = 3

----------------------------------------------------------------------------
(* Further claims about the macro statistics *)

\* C30: at every render the per-macro statistics account for every filtered
\* entry exactly once: the counts of the MacroStatEntry add up to
\* totalExecutions, which is the number of filtered entries; there are
\* uniqueMacros MacroStatEntry; and the count of each macro name that occurs
\* in the filtered entries is the number of filtered entries with that name.
C30_StatsAccountForEveryEntry ==
    pc = "aggregated" =>
        /\ generalDisplayStats.totalExecutions = Len(filteredData)
        /\ SumOfCounts(macroStats, 1) = generalDisplayStats.totalExecutions
        /\ Len(macroStats) = generalDisplayStats.uniqueMacros
        /\ \A n \in NamesIn(filteredData) :
              \E k \in 1..Len(macroStats) :
                 /\ macroStats[k].name = n
                 /\ macroStats[k].count
                       = CountOf(filteredData, LAMBDA e : e.macroName = n)

====
